---- MODULE Spec2Model ----
(***************************************************************************)
(* Smart DNS Proxy management console: the JSON-backed settings and domain *)
(* list (config.js), the generated forwarder configuration (dnsconfig.js), *)
(* the logger (logger.js) and the /api routes (routes/api.js), with the    *)
(* startup initialisation of app.js.                                       *)
(*                                                                         *)
(* Node runs every handler on one thread, but each `await` on an fs call   *)
(* is a point where another in-flight handler may run.  One action of this *)
(* module is one such await completing (together with the synchronous code *)
(* that follows it up to the next await).  fs.writeFile is open('w'),      *)
(* which truncates, then write: two steps, with the empty file visible in  *)
(* between.  fs.access on an existing file and mkdir on an existing        *)
(* directory observe nothing that can change (nothing is ever unlinked),   *)
(* so they are taken together with the await that follows them.            *)
(***************************************************************************)
EXTENDS Integers, Sequences, FiniteSets, TLC

(* ------------------------------ bounds -------------------------------- *)

\* requests accepted by the server over one run
MaxOps == 2
\* fs operations that fail over one run
MaxFaults == 1

\* concurrent request handlers, and the startup initialisation of app.js
Handlers == {1, 2}
Boot == 0
Procs == Handlers \cup {Boot}

\* values `new Date()` may take in the generated-at comment
Ticks == {0, 1}

(* ------------------------------- data --------------------------------- *)

IP1 == <<1, 1, 1, 1>>
IP8 == <<8, 8, 8, 8>>

\* file contents: no file, a file of zero bytes, JSON text, plain text lines
Absent == [kind |-> "absent"]
Empty == [kind |-> "empty"]
Json(v) == [kind |-> "json", v |-> v]
Text(lines) == [kind |-> "text", lines |-> lines]
\* a local variable that holds nothing yet
None == [kind |-> "none"]

Exists(f) == f.kind # "absent"

defaultConfig ==
  [dnsServer |-> [port |-> 53, cacheSize |-> 1000, logQueries |-> TRUE],
   alternativeDNS |-> [type |-> "array", items |-> <<IP8, IP1>>],
   webInterface |-> [port |-> 5000, enableAuth |-> FALSE,
                     username |-> "admin", password |-> "admin"]]

defaultIpList ==
  [domains |-> << [domain |-> "netflix.com", resolveVia |-> IP1],
                  [domain |-> "spotify.com", resolveVia |-> IP8] >>]

\* the file opened with flag 'a' instead of 'w'
WriteFileAppend(old, data) ==
  IF old.kind = "text" /\ data.kind = "text"
  THEN Text(old.lines \o data.lines) ELSE data

\* fs.writeFile, once the file is open: the data replaces what the file held
WriteFile(old, data) == data

\* JSON.parse of what readFile returned: a SyntaxError on the empty string
ParseOk(f) == f.kind = "json"

(* --------------------------- request inputs --------------------------- *)

\* POST /api/domains bodies: "" and <<>> stand for a missing field
DomainInputs == {"netflix.com", "www.netflix.com", "a.com", ""}
ViaInputs == {IP8, <<1, 1, 1>>, <<>>}
\* DELETE /api/domains/:domain (the route does not match an empty segment)
DeleteInputs == {"netflix.com", "www.netflix.com"}

AllKeys == {"dnsServer", "alternativeDNS", "webInterface"}

\* a well-formed settings body: other port, upstream order swapped
settingsA ==
  [dnsServer |-> [port |-> 5353, cacheSize |-> 1000, logQueries |-> FALSE],
   alternativeDNS |-> [type |-> "array", items |-> <<IP1, IP8>>],
   webInterface |-> [port |-> 5000, enableAuth |-> FALSE,
                     username |-> "admin", password |-> "admin"]]
\* alternativeDNS given as the string "8.8.8.8": truthy, but not an array
settingsB ==
  [dnsServer |-> [port |-> 53, cacheSize |-> 1000, logQueries |-> TRUE],
   alternativeDNS |-> [type |-> "string", items |-> <<IP8>>],
   webInterface |-> [port |-> 5000, enableAuth |-> FALSE,
                     username |-> "admin", password |-> "admin"]]

\* POST /api/settings bodies: the keys present, and the values they carry
SettingsInputs ==
  { [present |-> AllKeys, settings |-> settingsA],
    [present |-> AllKeys, settings |-> settingsB],
    [present |-> {"dnsServer", "webInterface"}, settings |-> settingsA] }

\* what a client that sends one request at a time may also post: an entry in
\* other letter case, an upstream with an octet above 255
WideDomainInputs == DomainInputs \cup {"Netflix.com"}
WideViaInputs == ViaInputs \cup {<<999, 8, 8, 8>>}

\* a settings body with a port above 65535 and the empty string as password
settingsC ==
  [dnsServer |-> [port |-> 70000, cacheSize |-> 1000, logQueries |-> TRUE],
   alternativeDNS |-> [type |-> "array", items |-> <<IP8, IP1>>],
   webInterface |-> [port |-> 5000, enableAuth |-> FALSE,
                     username |-> "admin", password |-> ""]]
\* the body main.js saveSettings sends while the password input is empty:
\* webInterface carries no password
settingsD ==
  [dnsServer |-> [port |-> 53, cacheSize |-> 1000, logQueries |-> TRUE],
   alternativeDNS |-> [type |-> "array", items |-> <<IP8, IP1>>],
   webInterface |-> [port |-> 5000, enableAuth |-> FALSE, username |-> "admin"]]

WideSettingsInputs ==
  SettingsInputs \cup { [present |-> AllKeys, settings |-> settingsC],
                        [present |-> AllKeys, settings |-> settingsD] }

\* GET /api/logs/:type
LogTypes == {"dns", "access", "error", "cache"}

(* --------------------------- pure functions --------------------------- *)

\* /^[a-zA-Z0-9][a-zA-Z0-9-]{1,61}[a-zA-Z0-9](?:\.[a-zA-Z]{2,})+$/ on the
\* inputs above: the first label needs three characters, so "a.com" fails;
\* upper-case letters are in every character class
DomainFormatOk(domain) ==
  domain \in {"netflix.com", "www.netflix.com", "Netflix.com"}

\* /^(?:[0-9]{1,3}\.){3}[0-9]{1,3}$/ : four groups of one to three digits
IpFormatOk(via) == Len(via) = 4 /\ \A i \in 1..4 : via[i] \in 0..999

\* findIndex with a suffix match: an entry for a parent domain is found too
FindIndexSuffix(domains, domain) ==
  LET hit(e) == e = domain \/ (e = "netflix.com" /\ domain = "www.netflix.com")
  IN IF \E i \in 1..Len(domains) : hit(domains[i].domain)
     THEN CHOOSE i \in 1..Len(domains) :
            /\ hit(domains[i].domain)
            /\ \A j \in 1..(i - 1) : ~hit(domains[j].domain)
     ELSE 0

\* Array.prototype.findIndex: first index whose entry has the domain, 0 if none
FindIndex(domains, domain) ==
  IF \E i \in 1..Len(domains) : domains[i].domain = domain
  THEN CHOOSE i \in 1..Len(domains) :
         /\ domains[i].domain = domain
         /\ \A j \in 1..(i - 1) : domains[j].domain # domain
  ELSE 0

RECURSIVE Filter(_, _)
\* domains.filter(d => d.domain !== domain)
Filter(domains, domain) ==
  IF domains = <<>> THEN <<>>
  ELSE IF Head(domains).domain # domain
       THEN <<Head(domains)>> \o Filter(Tail(domains), domain)
       ELSE Filter(Tail(domains), domain)

\* config.addDomain without its findIndex: the entry is always pushed
addDomainListPush(domains, domain, resolveVia) ==
  Append(domains, [domain |-> domain, resolveVia |-> resolveVia])

\* addDomain as remove-then-push: an updated entry moves to the end
addDomainListMove(domains, domain, resolveVia) ==
  Append(Filter(domains, domain), [domain |-> domain, resolveVia |-> resolveVia])

\* config.addDomain between its read and its save
addDomainList(domains, domain, resolveVia) ==
  LET existingIndex == FindIndex(domains, domain) IN
  IF existingIndex # 0
  THEN [domains EXCEPT ![existingIndex].resolveVia = resolveVia]
  ELSE Append(domains, [domain |-> domain, resolveVia |-> resolveVia])

\* removeDomain with a suffix match: the entries of sub-domains go as well
removeDomainListSuffix(domains, domain) ==
  SelectSeq(domains, LAMBDA e :
     ~(e.domain = domain
         \/ (domain = "netflix.com" /\ e.domain = "www.netflix.com")))

\* config.removeDomain between its read and its save
removeDomainList(domains, domain) == Filter(domains, domain)

\* one line of smartdns.conf: the literal text, then the interpolated values
Line(text, domain, value) == [text |-> text, domain |-> domain, value |-> value]
Blank == Line("", "", <<>>)

\* generateDnsmasqConfig giving every domain the first entry's upstream
configLinesFirstUpstream(appConfig, domainList, now) ==
  << Line("# Smart DNS Proxy Configuration", "", <<>>),
     Line("# Generated at ", "", <<now>>),
     Blank,
     Line("# Basic configuration", "", <<>>),
     Line("port=", "", <<appConfig.dnsServer.port>>),
     Line("cache-size=", "", <<appConfig.dnsServer.cacheSize>>),
     Line(IF appConfig.dnsServer.logQueries
          THEN "log-queries=true" ELSE "log-queries=false", "", <<>>),
     Blank,
     Line("# Alternative DNS servers", "", <<>>) >>
  \o [i \in 1..Len(appConfig.alternativeDNS.items) |->
        Line("server=", "", appConfig.alternativeDNS.items[i])]
  \o << Blank, Line("# Domain specific configurations", "", <<>>) >>
  \o (IF Len(domainList.domains) > 0
      THEN [i \in 1..Len(domainList.domains) |->
              Line("server=/", domainList.domains[i].domain,
                   domainList.domains[1].resolveVia)]
      ELSE << Line("# No domains configured yet", "", <<>>) >>)

\* the lines generateDnsmasqConfig builds from the parsed settings and list
configLines(appConfig, domainList, now) ==
  << Line("# Smart DNS Proxy Configuration", "", <<>>),
     Line("# Generated at ", "", <<now>>),
     Blank,
     Line("# Basic configuration", "", <<>>),
     Line("port=", "", <<appConfig.dnsServer.port>>),
     Line("cache-size=", "", <<appConfig.dnsServer.cacheSize>>),
     Line(IF appConfig.dnsServer.logQueries
          THEN "log-queries=true" ELSE "log-queries=false", "", <<>>),
     Blank,
     Line("# Alternative DNS servers", "", <<>>) >>
  \o [i \in 1..Len(appConfig.alternativeDNS.items) |->
        Line("server=", "", appConfig.alternativeDNS.items[i])]
  \o << Blank, Line("# Domain specific configurations", "", <<>>) >>
  \o (IF Len(domainList.domains) > 0
      THEN [i \in 1..Len(domainList.domains) |->
              Line("server=/", domainList.domains[i].domain,
                   domainList.domains[i].resolveVia)]
      ELSE << Line("# No domains configured yet", "", <<>>) >>)

\* alternativeDNS.forEach is a TypeError when the value is not an array
generateThrows(appConfig) == appConfig.alternativeDNS.type # "array"

(* ------------------------------- state -------------------------------- *)

VARIABLES
  dirs,        \* "none", "data" (data/ exists) or "all" (data/dns_config/ too)
  cfgFile,     \* data/config.json
  ipsFile,     \* data/ips.json
  confFile,    \* data/dns_config/smartdns.conf
  reportFile,  \* data/bypass_report.json
  dnsLog,      \* logs/dns.log: Absent, or Text of its lines in order
  accessLog,   \* logs/access.log: the set of messages appended to it
  errorLog,    \* logs/error.log: the set of messages appended to it
  proc,        \* the position and locals of every handler and of the startup
  started,     \* requests accepted so far
  faults,      \* fs operations that have failed so far
  lastGood     \* the last completed generation of smartdns.conf: what was
               \* written and the settings and domain list it was built from

vars == <<dirs, cfgFile, ipsFile, confFile, reportFile, dnsLog, accessLog,
          errorLog, proc, started, faults, lastGood>>

files == <<dirs, cfgFile, ipsFile, confFile, reportFile, dnsLog, lastGood>>

\* a handler waiting for a request
Idle ==
  [op |-> "none", pc |-> "idle", ece |-> "check", domain |-> "",
   resolveVia |-> <<>>, settings |-> None, ipData |-> None,
   configData |-> None, out |-> None, running |-> FALSE, status |-> 0,
   sent |-> 0, ev |-> <<>>, dirty |-> FALSE, type |-> "", domainCount |-> 0,
   since |-> 0, queryCount |-> 0]

\* app.listen's callback is about to call initializeDNSConfig
BootStart == [Idle EXCEPT !.op = "init", !.pc = "boot_mkdir"]

\* a fresh checkout (nothing exists yet), or a container in which start.sh
\* has created data/ and the two default JSON files before `node app.js`
Init ==
  /\ \/ dirs = "none" /\ cfgFile = Absent /\ ipsFile = Absent
     \/ dirs = "data" /\ cfgFile = Json(defaultConfig)
                      /\ ipsFile = Json(defaultIpList)
  /\ confFile = Absent
  /\ reportFile = Absent
  /\ dnsLog = Absent
  /\ accessLog = {}
  /\ errorLog = {}
  /\ proc = [r \in Procs |-> IF r = Boot THEN BootStart ELSE Idle]
  /\ started = 0
  /\ faults = 0
  /\ lastGood = None

(* ------------------------------ helpers ------------------------------- *)

\* what may go wrong in a step: nothing, its fs operation, or its log appends
FaultSet(kinds) == IF faults < MaxFaults THEN {"none"} \cup kinds ELSE {"none"}

\* logger.info / logger.error: appendFile inside try/catch, the failure is
\* printed on the console and goes no further
Logged(flt, infos, errors) ==
  /\ accessLog' = IF flt = "log" \/ infos = {} THEN accessLog
                  ELSE accessLog \cup {"INFO"}
  /\ errorLog' = IF flt = "log" THEN errorLog ELSE errorLog \cup errors
  /\ faults' = IF flt = "none" THEN faults ELSE faults + 1

Set(r, rec) == proc' = [proc EXCEPT ![r] = rec]

InUpdate(pc) == pc \in {"upd_gc", "upd_gdl", "gen_write", "restart"}

\* the logger.error calls of the catch blocks an exception passes through
ErrMsgs(rec) ==
  IF rec.op = "init" THEN {"Failed to initialize DNS configuration"}
  ELSE IF rec.op = "getStatus"
  THEN IF rec.pc = "st_gc1" THEN {"Failed to get cache entries"}
       ELSE IF rec.pc \in {"st_mk", "st_sim_open", "st_sim_write"}
       THEN {"Failed to count DNS queries"}
       ELSE {"Error in /api/status"}
  ELSE (IF rec.pc = "restart" THEN {"Failed to simulate DNS restart"} ELSE {})
       \cup (IF InUpdate(rec.pc)
             THEN {"Failed to update DNS configuration"} ELSE {})
       \cup (CASE rec.op = "postDomain" ->
                    {"Failed to add domain", "Error in POST /api/domains"}
               [] rec.op = "deleteDomain" ->
                    {"Failed to remove domain", "Error in DELETE /api/domains"}
               [] rec.op = "postSettings" -> {"Error in POST /api/settings"}
               [] rec.op = "getSettings" -> {"Error in GET /api/settings"}
               [] rec.op = "getLogs" -> {"Error in GET /api/logs"}
               [] rec.op = "clearLogs" -> {"Error in POST /api/logs/clear"}
               [] OTHER -> {"Error in GET /api/domains"})

\* res.json / res.status(code).json: the handler has answered
Respond(rec, code) ==
  [rec EXCEPT !.pc = "done", !.ece = "check", !.domain = "",
              !.resolveVia = <<>>, !.settings = None, !.ipData = None,
              !.configData = None, !.out = None,
              !.status = code, !.sent = @ + 1]

\* res.status(400).json(...) without the return: the handler goes on
RejectNoReturn(rec) ==
  [rec EXCEPT !.status = 400, !.sent = @ + 1,
              !.pc = IF rec.op = "postSettings" THEN "save_open" ELSE "mod_gdl"]

\* return res.status(400).json(...): the validation has failed
Reject(rec) == Respond(rec, 400)

\* where an exception thrown at rec's position ends up
Caught(rec) ==
  IF rec.op = "init"
  THEN [rec EXCEPT !.pc = "failed", !.ece = "check", !.ipData = None,
                   !.configData = None, !.out = None]
  ELSE IF rec.op = "getStatus" /\ rec.pc = "st_gc1"
  THEN [rec EXCEPT !.pc = "st_gc2", !.ece = "check"]
  ELSE IF rec.op = "getStatus" /\ rec.pc \in {"st_mk", "st_sim_open", "st_sim_write"}
  THEN [rec EXCEPT !.pc = "st_gc1", !.ece = "check"]
  ELSE Respond(rec, 500)

RestartLine == Line("INFO: DNS service restarted", "", <<>>)
AddedLine(domain, via) == Line("INFO: Added domain", domain, via)
RemovedLine(domain) == Line("INFO: Removed domain", domain, <<>>)
simulatedQueries ==
  << Line("DNS QUERY:", "netflix.com", IP1),
     Line("DNS QUERY:", "spotify.com", IP8),
     Line("DNS QUERY:", "hulu.com", IP1) >>

\* fs.appendFile: creates the file when it does not exist
AppendLine(f, line) ==
  IF f.kind = "text" THEN Text(Append(f.lines, line)) ELSE Text(<<line>>)

\* the count of all the lines of the log, whatever they hold
QueryCountAllLines(f) ==
  IF f.kind = "text" THEN Len(f.lines) ELSE 0

\* lines.filter(line => line.includes('DNS QUERY:')).length
QueryCount(f) ==
  IF f.kind = "text"
  THEN Cardinality({i \in 1..Len(f.lines) : f.lines[i].text = "DNS QUERY:"})
  ELSE 0

(* ---------------------- routes: accepting a request ------------------- *)

\* a request is taken by the first free handler, once the startup has ended
Accepts(r) ==
  /\ r \in Handlers
  /\ proc[r].pc = "idle"
  /\ \A q \in Handlers : q < r => proc[q].pc # "idle"
  /\ proc[Boot].pc \in {"done", "failed"}
  /\ started < MaxOps

\* POST /api/domains up to its first await: the validation
PostDomainsFrom(r, domains, vias) ==
  /\ Accepts(r)
  /\ \E domain \in domains, resolveVia \in vias, flt \in FaultSet({"log"}) :
       /\ Logged(flt, {"POST /api/domains"}, {})
       /\ IF domain = "" \/ resolveVia = <<>>
             \/ ~DomainFormatOk(domain) \/ ~IpFormatOk(resolveVia)
          THEN Set(r, Reject([proc[r] EXCEPT !.op = "postDomain"]))
          ELSE Set(r, [proc[r] EXCEPT !.op = "postDomain", !.pc = "mod_gdl",
                                      !.domain = domain,
                                      !.resolveVia = resolveVia])
  /\ started' = started + 1
  /\ UNCHANGED files

PostDomains(r) == PostDomainsFrom(r, DomainInputs, ViaInputs)

\* DELETE /api/domains/:domain up to its first await
DeleteDomains(r) ==
  /\ Accepts(r)
  /\ \E domain \in DeleteInputs, flt \in FaultSet({"log"}) :
       /\ Logged(flt, {"DELETE /api/domains"}, {})
       /\ Set(r, [proc[r] EXCEPT !.op = "deleteDomain", !.pc = "mod_gdl",
                                 !.domain = domain])
  /\ started' = started + 1
  /\ UNCHANGED files

\* POST /api/settings up to its first await: the validation, then saveConfig
PostSettingsFrom(r, bodies) ==
  /\ Accepts(r)
  /\ \E body \in bodies, flt \in FaultSet({"log"}) :
       /\ Logged(flt, {"POST /api/settings"}, {})
       /\ IF ~(AllKeys \subseteq body.present)
          THEN Set(r, Reject([proc[r] EXCEPT !.op = "postSettings"]))
          ELSE Set(r, [proc[r] EXCEPT !.op = "postSettings", !.pc = "save_open",
                                      !.settings = Json(body.settings),
                                      !.out = Json(body.settings)])
  /\ started' = started + 1
  /\ UNCHANGED files

PostSettings(r) == PostSettingsFrom(r, SettingsInputs)

\* GET /api/settings up to its first await
GetSettings(r) ==
  /\ Accepts(r)
  /\ \E flt \in FaultSet({"log"}) :
       /\ Logged(flt, {"GET /api/settings"}, {})
       /\ Set(r, [proc[r] EXCEPT !.op = "getSettings", !.pc = "gs_gc"])
  /\ started' = started + 1
  /\ UNCHANGED files

\* GET /api/domains up to its first await
GetDomains(r) ==
  /\ Accepts(r)
  /\ \E flt \in FaultSet({"log"}) :
       /\ Logged(flt, {"GET /api/domains"}, {})
       /\ Set(r, [proc[r] EXCEPT !.op = "getDomains", !.pc = "gd_gdl"])
  /\ started' = started + 1
  /\ UNCHANGED files

\* GET /api/status up to its first await
GetStatus(r) ==
  /\ Accepts(r)
  /\ \E flt \in FaultSet({"log"}) :
       /\ Logged(flt, {"GET /api/status"}, {})
       /\ Set(r, [proc[r] EXCEPT !.op = "getStatus", !.pc = "st_access"])
  /\ started' = started + 1
  /\ UNCHANGED files

\* the response has gone out; the handler is free for the next request
Finish(r) ==
  /\ r \in Handlers
  /\ proc[r].pc = "done"
  /\ Set(r, Idle)
  /\ UNCHANGED <<files, accessLog, errorLog, started, faults>>

(* ------------------- config.js: reading the two files ----------------- *)

\* positions at which getConfig or getDomainList is being awaited
ConfigSites == {"upd_gc", "st_gc1", "st_gc2", "gs_gc"}
DomainSites == {"mod_gdl", "upd_gdl", "gd_gdl", "st_gdl"}
GetSites == ConfigSites \cup DomainSites

\* ensureConfigExists: fs.access has failed on a file that is not there
EnsureAccess(r) ==
  /\ proc[r].pc \in GetSites
  /\ proc[r].ece = "check"
  /\ ~Exists(cfgFile) \/ ~Exists(ipsFile)
  /\ \E flt \in FaultSet({"log"}) :
       IF ~Exists(cfgFile)
       THEN /\ Logged(flt, {"Creating default configuration file"}, {})
            /\ Set(r, [proc[r] EXCEPT !.ece = "open_cfg"])
       ELSE /\ Logged(flt, {"Creating default IP list file"}, {})
            /\ Set(r, [proc[r] EXCEPT !.ece = "open_ips"])
  /\ UNCHANGED <<files, started>>

\* ensureConfigExists: mkdir(data), then writeFile opens the file for writing
EnsureOpen(r) ==
  /\ proc[r].pc \in GetSites
  /\ proc[r].ece \in {"open_cfg", "open_ips"}
  /\ \E flt \in FaultSet({"op"}) :
       IF flt = "op"
       THEN /\ Logged(flt, {}, ErrMsgs(proc[r]))
            /\ Set(r, Caught(proc[r]))
            /\ UNCHANGED <<dirs, cfgFile, ipsFile>>
       ELSE /\ Logged(flt, {}, {})
            /\ dirs' = IF dirs = "none" THEN "data" ELSE dirs
            /\ IF proc[r].ece = "open_cfg"
               THEN /\ cfgFile' = Empty
                    /\ ipsFile' = ipsFile
                    /\ Set(r, [proc[r] EXCEPT !.ece = "write_cfg"])
               ELSE /\ ipsFile' = Empty
                    /\ cfgFile' = cfgFile
                    /\ Set(r, [proc[r] EXCEPT !.ece = "write_ips"])
  /\ UNCHANGED <<confFile, reportFile, dnsLog, lastGood, started>>

\* ensureConfigExists: writeFile writes the defaults
EnsureWrite(r) ==
  /\ proc[r].pc \in GetSites
  /\ proc[r].ece \in {"write_cfg", "write_ips"}
  /\ \E flt \in FaultSet({"op"}) :
       IF flt = "op"
       THEN /\ Logged(flt, {}, ErrMsgs(proc[r]))
            /\ Set(r, Caught(proc[r]))
            /\ UNCHANGED <<cfgFile, ipsFile>>
       ELSE /\ Logged(flt, {}, {})
            /\ Set(r, [proc[r] EXCEPT !.ece = "check"])
            /\ IF proc[r].ece = "write_cfg"
               THEN /\ cfgFile' = WriteFile(cfgFile, Json(defaultConfig))
                    /\ ipsFile' = ipsFile
               ELSE /\ ipsFile' = WriteFile(ipsFile, Json(defaultIpList))
                    /\ cfgFile' = cfgFile
  /\ UNCHANGED <<dirs, confFile, reportFile, dnsLog, lastGood, started>>

\* GET /api/settings: delete settings.webInterface.password, when it is truthy
withoutPassword(settings) ==
  LET web == settings.webInterface IN
  IF "password" \in DOMAIN web /\ web.password # ""
  THEN [settings EXCEPT !.webInterface =
          [k \in DOMAIN web \ {"password"} |-> web[k]]]
  ELSE settings

\* the list config.addDomain / config.removeDomain hands to saveDomainList
Modified(rec, domainList) ==
  IF rec.op = "postDomain"
  THEN addDomainList(domainList.domains, rec.domain, rec.resolveVia)
  ELSE removeDomainList(domainList.domains, rec.domain)

\* where a handler goes once readFile and JSON.parse have returned `data`
AfterRead(rec, data, now) ==
  CASE rec.pc = "mod_gdl" ->
         [rec EXCEPT !.pc = "save_open",
                     !.out = Json([domains |-> Modified(rec, data.v)])]
    [] rec.pc = "upd_gc" -> [rec EXCEPT !.pc = "upd_gdl", !.configData = data]
    [] rec.pc = "upd_gdl" ->
         [rec EXCEPT !.pc = "gen_write", !.ipData = data,
                     !.out = Text(configLines(rec.configData.v, data.v, now))]
    [] rec.pc = "gd_gdl" -> Respond(rec, 200)
    [] rec.pc = "st_gdl" ->
         [rec EXCEPT !.pc = "st_log", !.domainCount = Len(data.v.domains)]
    [] rec.pc = "gs_gc" ->
         [Respond(rec, 200) EXCEPT !.out = Json(withoutPassword(data.v))]
    [] rec.pc = "st_gc1" -> [rec EXCEPT !.pc = "st_gc2"]
    [] OTHER -> Respond(rec, 200)

\* getConfig / getDomainList once both files exist: readFile, then JSON.parse;
\* after updateDNSConfig's second read, generateDnsmasqConfig builds its text
ReadFile(r) ==
  /\ proc[r].pc \in GetSites
  /\ proc[r].ece = "check"
  /\ Exists(cfgFile) /\ Exists(ipsFile)
  /\ LET rec == proc[r]
         data == IF rec.pc \in DomainSites THEN ipsFile ELSE cfgFile
         infos == IF rec.pc = "upd_gdl"
                  THEN {"Generating DNS configuration"} ELSE {}
     IN \E flt \in FaultSet({"op", "log"}), now \in Ticks :
          IF flt = "op"
          THEN /\ Logged(flt, {}, ErrMsgs(rec))
               /\ Set(r, Caught(rec))
          ELSE IF ~ParseOk(data)
          THEN /\ Logged(flt, {}, ErrMsgs(rec))
               /\ Set(r, IF rec.pc \in DomainSites
                         THEN [Caught(rec) EXCEPT !.ipData = data]
                         ELSE Caught(rec))
          ELSE IF rec.pc = "upd_gdl" /\ generateThrows(rec.configData.v)
          THEN /\ Logged(flt, infos, ErrMsgs(rec))
               /\ Set(r, Caught(rec))
          ELSE /\ Logged(flt, infos, {})
               /\ Set(r, AfterRead(rec, data, now))
  /\ UNCHANGED <<files, started>>

(* --------------- config.js: saveDomainList and saveConfig -------------- *)

\* fs.writeFile of the JSON file opens it with flag 'w': the file is now
\* empty.  saveConfig does no mkdir: ENOENT while data/ does not exist
SaveOpen(r) ==
  /\ proc[r].pc = "save_open"
  /\ LET rec == proc[r]
         old == IF rec.op = "postSettings" THEN cfgFile ELSE ipsFile
     IN \E flt \in FaultSet({"op"}) :
          IF flt = "op" \/ dirs = "none"
          THEN /\ Logged(flt, {}, ErrMsgs(rec))
               /\ Set(r, Caught(rec))
               /\ UNCHANGED <<cfgFile, ipsFile>>
          ELSE /\ Logged(flt, {}, {})
               /\ Set(r, [rec EXCEPT !.pc = "save_write",
                                     !.dirty = @ \/ (old # rec.out)])
               /\ IF rec.op = "postSettings"
                  THEN cfgFile' = Empty /\ ipsFile' = ipsFile
                  ELSE ipsFile' = Empty /\ cfgFile' = cfgFile
  /\ UNCHANGED <<dirs, confFile, reportFile, dnsLog, lastGood, started>>

\* fs.writeFile writes the JSON text; then logger.info('... saved successfully')
SaveWrite(r) ==
  /\ proc[r].pc = "save_write"
  /\ LET rec == proc[r] IN
     \E flt \in FaultSet({"op", "log"}) :
          IF flt = "op"
          THEN /\ Logged(flt, {}, ErrMsgs(rec))
               /\ Set(r, [Caught(rec) EXCEPT !.dirty = TRUE])
               /\ UNCHANGED <<cfgFile, ipsFile>>
          ELSE /\ Logged(flt, {IF rec.op = "postSettings"
                               THEN "Configuration saved successfully"
                               ELSE "Domain list saved successfully"}, {})
               /\ Set(r, [rec EXCEPT !.pc = "upd_gc", !.out = None,
                                     !.ev = Append(@, "persist")])
               /\ IF rec.op = "postSettings"
                  THEN cfgFile' = WriteFile(cfgFile, rec.out) /\ ipsFile' = ipsFile
                  ELSE ipsFile' = WriteFile(ipsFile, rec.out) /\ cfgFile' = cfgFile
  /\ UNCHANGED <<dirs, confFile, reportFile, dnsLog, lastGood, started>>

(* ------------------ dnsconfig.js: the generated file ------------------ *)

\* app.listen's callback: logger.info, then initializeDNSConfig's mkdir of
\* data/dns_config (recursive, so data/ is created with it)
InitializeMkdir(r) ==
  /\ proc[r].pc = "boot_mkdir"
  /\ \E flt \in FaultSet({"op", "log"}) :
       IF flt = "op"
       THEN /\ Logged(flt, {"Server started", "Initializing DNS configuration"},
                      ErrMsgs(proc[r]))
            /\ Set(r, Caught(proc[r]))
            /\ dirs' = dirs
       ELSE /\ Logged(flt, {"Server started", "Initializing DNS configuration"}, {})
            /\ Set(r, [proc[r] EXCEPT !.pc = "upd_gc"])
            /\ dirs' = "all"
  /\ UNCHANGED <<cfgFile, ipsFile, confFile, reportFile, dnsLog, lastGood, started>>

\* whether the list updateDNSConfig read holds the change the request made
HoldsChange(rec) ==
  CASE rec.op = "postDomain" ->
         \E i \in 1..Len(rec.ipData.v.domains) :
            rec.ipData.v.domains[i] =
              [domain |-> rec.domain, resolveVia |-> rec.resolveVia]
    [] rec.op = "deleteDomain" ->
         \A i \in 1..Len(rec.ipData.v.domains) :
            rec.ipData.v.domains[i].domain # rec.domain
    [] rec.op = "postSettings" -> rec.configData = rec.settings
    [] OTHER -> TRUE

\* generateDnsmasqConfig: fs.writeFile(smartdns.conf) and the logger.info after
\* it.  Nothing reads the content of smartdns.conf, so its open (which
\* truncates) and its write are one step; a failure leaves the file as it was
\* (the open failed: ENOENT while data/dns_config does not exist) or empty
\* (the write failed).  The startup initialisation ends here, updateDNSConfig
\* goes on to restartDnsmasq
GenerateWrite(r) ==
  /\ proc[r].pc = "gen_write"
  /\ LET rec == proc[r] IN
     \E flt \in FaultSet({"op", "log"}) :
       IF dirs # "all"
       THEN /\ Logged(flt, {}, ErrMsgs(rec))
            /\ Set(r, Caught(rec))
            /\ UNCHANGED <<confFile, lastGood>>
       ELSE IF flt = "op"
       THEN /\ Logged(flt, {}, ErrMsgs(rec))
            /\ \E left \in {confFile, Empty} :
                 /\ confFile' = left
                 /\ Set(r, [Caught(rec) EXCEPT !.dirty = @ \/ (left # confFile)])
            /\ lastGood' = lastGood
       ELSE /\ confFile' = WriteFile(confFile, rec.out)
            /\ lastGood' = [out |-> rec.out, appConfig |-> rec.configData,
                            domainList |-> rec.ipData]
            /\ IF rec.op = "init"
               THEN /\ Logged(flt, {"DNS configuration generated",
                                    "DNS configuration initialized successfully"}, {})
                    /\ Set(r, [rec EXCEPT !.pc = "done", !.ipData = None,
                                          !.configData = None, !.out = None,
                                          !.ev = Append(@, "generate")])
               ELSE /\ Logged(flt, {"DNS configuration generated",
                                    "Simulating DNS service restart"}, {})
                    /\ Set(r, [rec EXCEPT !.pc = "restart", !.out = None,
                                 !.configData = None,
                                 !.dirty = @ \/ (confFile # rec.out),
                                 !.ev = Append(@, IF HoldsChange(rec)
                                                  THEN "generate"
                                                  ELSE "generate_stale")])
  /\ UNCHANGED <<dirs, cfgFile, ipsFile, reportFile, dnsLog, started>>

\* the report generateBypassReport writes
bypassReport(domainList) == Json([totalDomains |-> Len(domainList.domains)])

\* updateDNSConfig with a generateBypassReport that rethrows its failure
RestartDnsmasqReportThrows(r) ==
  /\ proc[r].pc = "restart"
  /\ LET rec == proc[r]
         next == IF rec.op = "postSettings"
                 THEN Respond(rec, 200)
                 ELSE [rec EXCEPT !.pc = "final", !.ipData = None]
     IN \E flt \in FaultSet({"op", "log", "report"}) :
       IF flt = "op"
       THEN /\ Logged(flt, {}, ErrMsgs(rec))
            /\ Set(r, [Caught(rec) EXCEPT !.ev = Append(rec.ev, "append_failed")])
            /\ UNCHANGED <<dnsLog, reportFile>>
       ELSE /\ dnsLog' = AppendLine(dnsLog, RestartLine)
            /\ IF flt = "report"
               THEN /\ Logged(flt, {"DNS service restart simulated successfully",
                                    "DNS configuration updated successfully"},
                              {"Failed to generate bypass report"})
                    /\ Set(r, [Caught(rec) EXCEPT !.ev = Append(rec.ev, "restart")])
                    /\ reportFile' \in {reportFile, Empty}
               ELSE /\ Logged(flt, {"DNS service restart simulated successfully",
                                    "Bypass report generated",
                                    "DNS configuration updated successfully"}, {})
                    /\ Set(r, [next EXCEPT !.ev = rec.ev \o <<"restart", "report">>])
                    /\ reportFile' = bypassReport(rec.ipData.v)
  /\ UNCHANGED <<dirs, cfgFile, ipsFile, confFile, lastGood, started>>

\* restartDnsmasq: the appendFile to dns.log, whose failure is logged and
\* rethrown; then generateBypassReport: its writeFile, whose failure is logged
\* and not rethrown (nothing reads the report, so it is part of this step).
\* POST /api/settings answers right after it
RestartDnsmasq(r) ==
  /\ proc[r].pc = "restart"
  /\ LET rec == proc[r]
         next == IF rec.op = "postSettings"
                 THEN Respond(rec, 200)
                 ELSE [rec EXCEPT !.pc = "final", !.ipData = None]
     IN \E flt \in FaultSet({"op", "log", "report"}) :
       IF flt = "op"
       THEN /\ Logged(flt, {}, ErrMsgs(rec))
            /\ Set(r, [Caught(rec) EXCEPT !.ev = Append(rec.ev, "append_failed")])
            /\ UNCHANGED <<dnsLog, reportFile>>
       ELSE /\ dnsLog' = AppendLine(dnsLog, RestartLine)
            /\ IF flt = "report"
               THEN /\ Logged(flt, {"DNS service restart simulated successfully",
                                    "DNS configuration updated successfully"},
                              {"Failed to generate bypass report"})
                    /\ Set(r, [next EXCEPT !.ev = Append(rec.ev, "restart")])
                    /\ reportFile' \in {reportFile, Empty}
               ELSE /\ Logged(flt, {"DNS service restart simulated successfully",
                                    "Bypass report generated",
                                    "DNS configuration updated successfully"}, {})
                    /\ Set(r, [next EXCEPT !.ev = rec.ev \o <<"restart", "report">>])
                    /\ reportFile' = bypassReport(rec.ipData.v)
  /\ UNCHANGED <<dirs, cfgFile, ipsFile, confFile, lastGood, started>>

\* dnsconfig.addDomain / removeDomain: the last appendFile to dns.log, after
\* which the route answers
FinalLog(r) ==
  /\ proc[r].pc = "final"
  /\ LET rec == proc[r] IN
     \E flt \in FaultSet({"op"}) :
       IF flt = "op"
       THEN /\ Logged(flt, {}, ErrMsgs(rec))
            /\ Set(r, [Caught(rec) EXCEPT !.ev = Append(rec.ev, "append_failed")])
            /\ dnsLog' = dnsLog
       ELSE /\ Logged(flt, {}, {})
            /\ Set(r, [Respond(rec, 200) EXCEPT !.ev = Append(@, "final")])
            /\ dnsLog' = AppendLine(dnsLog,
                           IF rec.op = "postDomain"
                           THEN AddedLine(rec.domain, rec.resolveVia)
                           ELSE RemovedLine(rec.domain))
  /\ UNCHANGED <<dirs, cfgFile, ipsFile, confFile, reportFile, lastGood, started>>

(* ------------------------- GET /api/status ---------------------------- *)

\* `running` set without looking at smartdns.conf
StatusAccessAlways(r) ==
  /\ proc[r].pc = "st_access"
  /\ Set(r, [proc[r] EXCEPT !.pc = "st_gdl", !.running = TRUE])
  /\ UNCHANGED <<files, accessLog, errorLog, started, faults>>

\* fs.access(smartdns.conf) decides `running`
StatusAccess(r) ==
  /\ proc[r].pc = "st_access"
  /\ Set(r, [proc[r] EXCEPT !.pc = "st_gdl", !.running = Exists(confFile)])
  /\ UNCHANGED <<files, accessLog, errorLog, started, faults>>

\* fs.stat(config.json), mkdir(logs), then readFile(dns.log) and the count of
\* its 'DNS QUERY:' lines; a failed read leads to writeFile(dns.log, '')
StatusReadLog(r) ==
  /\ proc[r].pc = "st_log"
  /\ LET rec == proc[r]
         errors == IF Exists(cfgFile) THEN {}
                   ELSE {"Failed to get last update time"}
     IN \E flt \in FaultSet({"op", "log"}) :
          /\ Logged(flt, {}, errors)
          /\ Set(r, [rec EXCEPT !.pc =
                       IF flt = "op" \/ ~Exists(dnsLog) THEN "st_mk"
                       ELSE IF QueryCount(dnsLog) = 0 THEN "st_sim_open"
                       ELSE "st_gc1",
                                !.queryCount =
                       IF flt = "op" \/ ~Exists(dnsLog) THEN 0
                       ELSE QueryCount(dnsLog)])
  /\ UNCHANGED <<files, started>>

\* the catch of the failed read: writeFile(dns.log, ''); the count is then 0
StatusCreateLog(r) ==
  /\ proc[r].pc = "st_mk"
  /\ \E flt \in FaultSet({"op"}) :
       IF flt = "op"
       THEN /\ Logged(flt, {}, ErrMsgs(proc[r]))
            /\ Set(r, Caught(proc[r]))
            /\ dnsLog' = dnsLog
       ELSE /\ Logged(flt, {}, {})
            /\ Set(r, [proc[r] EXCEPT !.pc = "st_sim_open"])
            /\ dnsLog' = Text(<<>>)
  /\ UNCHANGED <<dirs, cfgFile, ipsFile, confFile, reportFile, lastGood, started>>

\* queryCount === 0: writeFile(dns.log, simulated) opens the log with flag 'w'
StatusSimulateOpen(r) ==
  /\ proc[r].pc = "st_sim_open"
  /\ \E flt \in FaultSet({"op"}) :
       IF flt = "op"
       THEN /\ Logged(flt, {}, ErrMsgs(proc[r]))
            /\ Set(r, Caught(proc[r]))
            /\ dnsLog' = dnsLog
       ELSE /\ Logged(flt, {}, {})
            /\ Set(r, [proc[r] EXCEPT !.pc = "st_sim_write"])
            /\ dnsLog' = Text(<<>>)
  /\ UNCHANGED <<dirs, cfgFile, ipsFile, confFile, reportFile, lastGood, started>>

\* ... and writes the three simulated queries from offset 0 (they are longer
\* than any lines appended since the open, which they overwrite)
StatusSimulateWrite(r) ==
  /\ proc[r].pc = "st_sim_write"
  /\ \E flt \in FaultSet({"op"}) :
       IF flt = "op"
       THEN /\ Logged(flt, {}, ErrMsgs(proc[r]))
            /\ Set(r, Caught(proc[r]))
            /\ dnsLog' = dnsLog
       ELSE /\ Logged(flt, {}, {})
            /\ Set(r, [proc[r] EXCEPT !.pc = "st_gc1",
                                      !.queryCount = Len(simulatedQueries)])
            /\ dnsLog' = Text(simulatedQueries)
  /\ UNCHANGED <<dirs, cfgFile, ipsFile, confFile, reportFile, lastGood, started>>

(* ------------------ GET /api/logs/:type, POST /api/logs/clear --------- *)

\* the sample lines GET /api/logs/dns writes into a dns.log it did not find
sampleDnsLog ==
  << Line("DNS QUERY:", "netflix.com", IP1),
     Line("DNS QUERY:", "spotify.com", IP8),
     Line("DNS QUERY:", "hulu.com", IP1),
     Line("DNS QUERY:", "amazon.com", IP8),
     RestartLine >>

\* fs.access(logPath).  access.log and error.log are kept as the set of their
\* entries: they exist once an entry has been appended
LogExists(type) ==
  CASE type = "dns" -> Exists(dnsLog)
    [] type = "access" -> accessLog # {}
    [] OTHER -> errorLog # {}

\* fs.readFile(logPath, 'utf8')
LogContent(type) ==
  CASE type = "dns" -> dnsLog
    [] type = "access" -> [kind |-> "entries", entries |-> accessLog]
    [] OTHER -> [kind |-> "entries", entries |-> errorLog]

\* GET /api/logs/:type up to its first await: the switch on the type
GetLogs(r) ==
  /\ Accepts(r)
  /\ \E type \in LogTypes, flt \in FaultSet({"log"}) :
       /\ Logged(flt, {"GET /api/logs"}, {})
       /\ IF type \notin {"dns", "access", "error"}
          THEN Set(r, Reject([proc[r] EXCEPT !.op = "getLogs", !.type = type]))
          ELSE Set(r, [proc[r] EXCEPT !.op = "getLogs", !.pc = "gl_access",
                                      !.type = type])
  /\ started' = started + 1
  /\ UNCHANGED files

\* mkdir(logs), which may fail, then fs.access(logPath)
LogsAccess(r) ==
  /\ proc[r].pc = "gl_access"
  /\ LET rec == proc[r] IN
     \E flt \in FaultSet({"op"}) :
       IF flt = "op"
       THEN /\ Logged(flt, {}, ErrMsgs(rec))
            /\ Set(r, Caught(rec))
       ELSE /\ Logged(flt, {}, {})
            /\ Set(r, [rec EXCEPT !.pc =
                         IF LogExists(rec.type) THEN "gl_read"
                         ELSE IF rec.type = "dns" THEN "gl_open"
                         ELSE "gl_write"])
  /\ UNCHANGED <<files, started>>

\* the file was not there: writeFile(dns.log, sampleData) opens it with 'w'
LogsCreateOpen(r) ==
  /\ proc[r].pc = "gl_open"
  /\ \E flt \in FaultSet({"op"}) :
       IF flt = "op"
       THEN /\ Logged(flt, {}, ErrMsgs(proc[r]))
            /\ Set(r, Caught(proc[r]))
            /\ dnsLog' = dnsLog
       ELSE /\ Logged(flt, {}, {})
            /\ Set(r, [proc[r] EXCEPT !.pc = "gl_write"])
            /\ dnsLog' = Text(<<>>)
  /\ UNCHANGED <<dirs, cfgFile, ipsFile, confFile, reportFile, lastGood, started>>

\* ... and writes the sample: five lines for dns.log, INFO entries for
\* access.log, nothing for error.log (whose open with 'w' has emptied it)
LogsCreateWrite(r) ==
  /\ proc[r].pc = "gl_write"
  /\ LET rec == proc[r] IN
     \E flt \in FaultSet({"op"}) :
       IF flt = "op"
       THEN /\ Logged(flt, {}, ErrMsgs(rec))
            /\ Set(r, Caught(rec))
            /\ dnsLog' = dnsLog
       ELSE /\ faults' = faults
            /\ Set(r, [rec EXCEPT !.pc = "gl_read"])
            /\ dnsLog' = IF rec.type = "dns" THEN Text(sampleDnsLog) ELSE dnsLog
            /\ accessLog' = IF rec.type = "access" THEN {"INFO"} ELSE accessLog
            /\ errorLog' = IF rec.type = "error" THEN {} ELSE errorLog
  /\ UNCHANGED <<dirs, cfgFile, ipsFile, confFile, reportFile, lastGood, started>>

\* readFile(logPath), then res.send(logContent)
LogsRead(r) ==
  /\ proc[r].pc = "gl_read"
  /\ LET rec == proc[r] IN
     \E flt \in FaultSet({"op"}) :
       IF flt = "op"
       THEN /\ Logged(flt, {}, ErrMsgs(rec))
            /\ Set(r, Caught(rec))
       ELSE /\ Logged(flt, {}, {})
            /\ Set(r, [Respond(rec, 200) EXCEPT !.out = LogContent(rec.type)])
  /\ UNCHANGED <<files, started>>

\* POST /api/logs/clear up to its first await.  `since` and "alone" remember
\* whether another request was in flight when this one arrived
ClearLogs(r) ==
  /\ Accepts(r)
  /\ \E flt \in FaultSet({"log"}) :
       /\ Logged(flt, {"POST /api/logs/clear"}, {})
       /\ Set(r, [proc[r] EXCEPT
                    !.op = "clearLogs", !.pc = "cl_dns", !.since = started + 1,
                    !.ev = IF \A q \in Handlers \ {r} :
                                 proc[q].pc \in {"idle", "done"}
                           THEN <<"alone">> ELSE <<>>])
  /\ started' = started + 1
  /\ UNCHANGED files

\* the clearing loop without dns.log among its paths
ClearDnsSkipped(r) ==
  /\ proc[r].pc = "cl_dns"
  /\ Logged("none", {}, {})
  /\ Set(r, [proc[r] EXCEPT !.pc = "cl_access"])
  /\ UNCHANGED <<files, started>>

\* mkdir(logs), then writeFile(dns.log, '')
ClearDns(r) ==
  /\ proc[r].pc = "cl_dns"
  /\ \E flt \in FaultSet({"op"}) :
       IF flt = "op"
       THEN /\ Logged(flt, {}, ErrMsgs(proc[r]))
            /\ Set(r, Caught(proc[r]))
            /\ dnsLog' = dnsLog
       ELSE /\ Logged(flt, {}, {})
            /\ Set(r, [proc[r] EXCEPT !.pc = "cl_access"])
            /\ dnsLog' = Text(<<>>)
  /\ UNCHANGED <<dirs, cfgFile, ipsFile, confFile, reportFile, lastGood, started>>

\* writeFile(access.log, '')
ClearAccess(r) ==
  /\ proc[r].pc = "cl_access"
  /\ \E flt \in FaultSet({"op"}) :
       IF flt = "op"
       THEN /\ Logged(flt, {}, ErrMsgs(proc[r]))
            /\ Set(r, Caught(proc[r]))
       ELSE /\ faults' = faults
            /\ Set(r, [proc[r] EXCEPT !.pc = "cl_error"])
            /\ accessLog' = {}
            /\ errorLog' = errorLog
  /\ UNCHANGED <<files, started>>

\* writeFile(error.log, '')
ClearError(r) ==
  /\ proc[r].pc = "cl_error"
  /\ \E flt \in FaultSet({"op"}) :
       IF flt = "op"
       THEN /\ Logged(flt, {}, ErrMsgs(proc[r]))
            /\ Set(r, Caught(proc[r]))
       ELSE /\ faults' = faults
            /\ Set(r, [proc[r] EXCEPT !.pc = "cl_info"])
            /\ accessLog' = accessLog
            /\ errorLog' = {}
  /\ UNCHANGED <<files, started>>

\* await logger.info('Logs cleared by user'), then res.json: a failed append
\* is swallowed by the logger and the answer is the same
ClearInfo(r) ==
  /\ proc[r].pc = "cl_info"
  /\ \E flt \in FaultSet({"log"}) :
       /\ faults' = IF flt = "none" THEN faults ELSE faults + 1
       /\ accessLog' = IF flt = "log" THEN accessLog
                       ELSE accessLog \cup {"Logs cleared by user"}
       /\ errorLog' = errorLog
       /\ Set(r, Respond(proc[r], 200))
  /\ UNCHANGED <<files, started>>

(* --------------------------- specification ---------------------------- *)

Step(r) ==
  \/ PostDomains(r)
  \/ DeleteDomains(r)
  \/ PostSettings(r)
  \/ GetDomains(r)
  \/ GetStatus(r)
  \/ GetSettings(r)
  \/ GetLogs(r)
  \/ ClearLogs(r)
  \/ Finish(r)
  \/ EnsureAccess(r)
  \/ EnsureOpen(r)
  \/ EnsureWrite(r)
  \/ ReadFile(r)
  \/ SaveOpen(r)
  \/ SaveWrite(r)
  \/ InitializeMkdir(r)
  \/ GenerateWrite(r)
  \/ RestartDnsmasq(r)
  \/ FinalLog(r)
  \/ StatusAccess(r)
  \/ StatusReadLog(r)
  \/ StatusCreateLog(r)
  \/ StatusSimulateOpen(r)
  \/ StatusSimulateWrite(r)
  \/ LogsAccess(r)
  \/ LogsCreateOpen(r)
  \/ LogsCreateWrite(r)
  \/ LogsRead(r)
  \/ ClearDns(r)
  \/ ClearAccess(r)
  \/ ClearError(r)
  \/ ClearInfo(r)

Next == \E r \in Procs : Step(r)

Spec == Init /\ [][Next]_vars

\* Node's event loop runs the continuation of every fs call that has
\* completed: no handler in flight, and not the startup, waits for ever
Work(r) ==
  \/ Finish(r)
  \/ EnsureAccess(r)
  \/ EnsureOpen(r)
  \/ EnsureWrite(r)
  \/ ReadFile(r)
  \/ SaveOpen(r)
  \/ SaveWrite(r)
  \/ InitializeMkdir(r)
  \/ GenerateWrite(r)
  \/ RestartDnsmasq(r)
  \/ FinalLog(r)
  \/ StatusAccess(r)
  \/ StatusReadLog(r)
  \/ StatusCreateLog(r)
  \/ StatusSimulateOpen(r)
  \/ StatusSimulateWrite(r)
  \/ LogsAccess(r)
  \/ LogsCreateOpen(r)
  \/ LogsCreateWrite(r)
  \/ LogsRead(r)
  \/ ClearDns(r)
  \/ ClearAccess(r)
  \/ ClearError(r)
  \/ ClearInfo(r)

FairSpec == Init /\ [][Next]_vars /\ \A r \in Procs : WF_vars(Work(r))

\* one client that waits for each answer before it sends the next request,
\* and posts a wider range of bodies
SeqStep(r) ==
  \/ /\ \A q \in Handlers : proc[q].pc = "idle"
     /\ \/ PostDomainsFrom(r, WideDomainInputs, WideViaInputs)
        \/ DeleteDomains(r)
        \/ PostSettingsFrom(r, WideSettingsInputs)
        \/ GetDomains(r)
        \/ GetStatus(r)
        \/ GetSettings(r)
        \/ GetLogs(r)
        \/ ClearLogs(r)
  \/ Work(r)

SeqNext == \E r \in Procs : SeqStep(r)

SeqSpec == Init /\ [][SeqNext]_vars

(* ------------------------- reading the state -------------------------- *)

InFlight(r) == proc[r].pc \notin {"idle", "done", "failed"}
Quiet == \A r \in Procs : ~InFlight(r)
Writers == {"postDomain", "deleteDomain", "postSettings"}

\* the domain strings of a domain list are pairwise different
UniqueDomains(domains) ==
  \A i, j \in 1..Len(domains) :
     i # j => domains[i].domain # domains[j].domain

RECURSIVE Select(_, _)
\* the lines of a configuration that start with `text`, in order
Select(lines, text) ==
  IF lines = <<>> THEN <<>>
  ELSE IF Head(lines).text = text
       THEN <<Head(lines)>> \o Select(Tail(lines), text)
       ELSE Select(Tail(lines), text)

\* the server=/domain/upstream directives of a configuration, as entries
DomainDirectives(lines) ==
  LET sel == Select(lines, "server=/") IN
  [i \in 1..Len(sel) |-> [domain |-> sel[i].domain, resolveVia |-> sel[i].value]]

\* the plain server=upstream directives of a configuration, in order
DefaultDirectives(lines) ==
  LET sel == Select(lines, "server=") IN [i \in 1..Len(sel) |-> sel[i].value]

\* a configuration without its generated-at comment
RECURSIVE Directives(_)
Directives(lines) ==
  IF lines = <<>> THEN <<>>
  ELSE IF Head(lines).text = "# Generated at "
       THEN Directives(Tail(lines))
       ELSE <<Head(lines)>> \o Directives(Tail(lines))

(* ------------------------------- claims ------------------------------- *)

\* C1: whatever add and remove requests ran, and however they interleaved,
\* the persisted domain list never holds two entries with the same domain.
C1_UniqueDomains ==
  ipsFile.kind = "json" => UniqueDomains(ipsFile.v.domains)

\* an add of a listed domain and an add of a new one have both been persisted
C1_Witness ==
  /\ ipsFile.kind = "json"
  /\ \E i, j \in 1..Len(ipsFile.v.domains) :
        /\ ipsFile.v.domains[i] = [domain |-> "netflix.com", resolveVia |-> IP8]
        /\ ipsFile.v.domains[j].domain = "www.netflix.com"

\* C2: in a run in which no fs operation fails, what readFile(ips.json)
\* returns to GET /api/domains or GET /api/status is a complete list (the one
\* before or the one after a concurrent write), never an empty or cut one.
C2_ReadersSeeCompleteList ==
  faults = 0 =>
     \A r \in Handlers :
        proc[r].op \in {"getDomains", "getStatus"} =>
           proc[r].ipData.kind \in {"none", "json"}

C4_GeneratedRoutes ==
  \A r \in Procs :
     proc[r].pc = "gen_write" =>
        LET lines == proc[r].out.lines
            domains == proc[r].ipData.v.domains
        IN /\ \A i \in 1..Len(domains) :
                Cardinality({k \in 1..Len(lines) :
                   lines[k] = Line("server=/", domains[i].domain,
                                   domains[i].resolveVia)}) = 1
           /\ \A k \in 1..Len(lines) :
                lines[k].text = "server=/" =>
                   \E i \in 1..Len(domains) :
                      /\ domains[i].domain = lines[k].domain
                      /\ domains[i].resolveVia = lines[k].value
           /\ DefaultDirectives(lines) =
                proc[r].configData.v.alternativeDNS.items

\* a configuration is being generated from three entries and posted settings
C4_Witness ==
  \E r \in Handlers :
     /\ proc[r].pc = "gen_write"
     /\ Len(proc[r].ipData.v.domains) = 3
     /\ proc[r].configData.v = settingsA

\* updateDNSConfig ends in its catch block in this step
UpdateFails(r) ==
  /\ r \in Handlers
  /\ InUpdate(proc[r].pc)
  /\ proc'[r].status = 500

\* C5: when updateDNSConfig fails, smartdns.conf still holds the complete
\* content of the last generation that succeeded (the half of the claim about
\* the error log is not needed to refute it).
C5_FailedUpdateKeepsLastGood ==
  [][\A r \in Handlers :
       (UpdateFails(r) /\ lastGood' # None) => confFile' = lastGood'.out]_vars

\* C6: a request answered 400 or 500 has replaced neither the domain list,
\* nor the settings, nor the generated configuration (also in a run in which
\* no fs operation fails).
C6_FailureChangesNothing ==
  faults = 0 =>
     \A r \in Handlers : proc[r].status \in {400, 500} => ~proc[r].dirty

\* C7: no add, remove or settings update is answered with a failure because an
\* append to a log file failed.
C7_LogFailureSwallowed ==
  \A r \in Handlers :
     (proc[r].op \in Writers /\ proc[r].status = 500) =>
        \A i \in 1..Len(proc[r].ev) : proc[r].ev[i] # "append_failed"

\* C9: a modifying request that answers success has persisted its change, then
\* generated smartdns.conf from data holding that change, then recorded the
\* restart: in this order, before the response (also in a run in which no fs
\* operation fails).
C9_SuccessAfterPersistGenerateRestart ==
  \A r \in Handlers :
     (proc[r].op \in Writers /\ proc[r].status = 200 /\ faults = 0) =>
        /\ Len(proc[r].ev) >= 3
        /\ proc[r].ev[1] = "persist"
        /\ proc[r].ev[2] = "generate"
        /\ proc[r].ev[3] = "restart"

\* C8: no failing fs operation is fatal.  A request gets no second response,
\* its handler is left only after exactly one response (200, 400 or 500),
\* every request in flight is answered and its handler is free again for a
\* later one, and the startup initialisation ends, its failure written to
\* the error log.
C8_EveryRequestAnswered ==
  /\ [](\A r \in Handlers :
          /\ proc[r].sent <= 1
          /\ proc[r].pc = "done" =>
                proc[r].sent = 1 /\ proc[r].status \in {200, 400, 500})
  /\ [][\A r \in Handlers :
          (proc[r].pc # "idle" /\ proc'[r].pc = "idle") => proc[r].pc = "done"]_vars
  /\ [][(proc[Boot].pc # "failed" /\ proc'[Boot].pc = "failed") =>
          "Failed to initialize DNS configuration" \in errorLog']_vars
  /\ \A r \in Handlers : []<>(proc[r].pc = "idle")
  /\ <>(proc[Boot].pc \in {"done", "failed"})

\* the startup initialisation has failed, a request has been answered 500,
\* and a later request is answered 200
C8_Witness ==
  /\ proc[Boot].pc = "failed"
  /\ started = 2
  /\ "Error in POST /api/settings" \in errorLog
  /\ \E r \in Handlers : proc[r].pc = "done" /\ proc[r].status = 200

\* C10: updateDNSConfig on settings and a domain list that exist changes
\* neither config.json nor ips.json, and when they are the data the previous
\* generation was built from, the configuration it writes differs from the
\* previous one in the generated-at comment at most.
C10_UpdateIdempotent ==
  [][\A r \in Handlers :
       ( /\ InUpdate(proc[r].pc)
         /\ proc[r].ece = "check"
         /\ Exists(cfgFile) /\ Exists(ipsFile)
         /\ proc'[r] # proc[r] )
       => /\ cfgFile' = cfgFile
          /\ ipsFile' = ipsFile
          /\ ( /\ proc'[r].pc = "restart"
               /\ lastGood # None
               /\ confFile = lastGood.out
               /\ lastGood.appConfig = proc[r].configData
               /\ lastGood.domainList = proc[r].ipData )
             => Directives(confFile'.lines) = Directives(confFile.lines)]_vars

\* the first request after the startup has regenerated the configuration from
\* the very settings and list the startup generated it from
C10_Witness ==
  /\ proc[Boot].pc = "done"
  /\ started = 1
  /\ cfgFile = Json(defaultConfig)
  /\ ipsFile = Json(defaultIpList)
  /\ \E r \in Handlers :
        proc[r].pc = "restart" /\ proc[r].ev = <<"persist", "generate">>

\* String.prototype.toLowerCase on the domains posted
Lower(domain) == IF domain = "Netflix.com" THEN "netflix.com" ELSE domain

\* C11: domain names are case-insensitive: the persisted list never holds two
\* entries whose domains differ in letter case only (an add in other case
\* updates the entry it names).
C11_CaseInsensitiveDomains ==
  (faults = 0 /\ ipsFile.kind = "json") =>
     \A i, j \in 1..Len(ipsFile.v.domains) :
        i # j => Lower(ipsFile.v.domains[i].domain)
                   # Lower(ipsFile.v.domains[j].domain)

\* the entries of a list for one domain string
EntriesOf(domains, domain) ==
  {domains[i] : i \in {k \in 1..Len(domains) : domains[k].domain = domain}}

\* C12: netflix.com and www.netflix.com are distinct entries.  An add, update
\* or removal of one of them hands saveDomainList a list in which the entry
\* of the other is what it was in the list read, and a configuration
\* generated from a list holding www.netflix.com routes it with the upstream
\* of its own entry and with no other.
C12_SubdomainIsItsOwnEntry ==
  [][\A r \in Handlers :
       /\ ( /\ proc[r].pc = "mod_gdl" /\ proc'[r].pc = "save_open"
            /\ proc[r].domain \in {"netflix.com", "www.netflix.com"} )
          => LET other == IF proc[r].domain = "netflix.com"
                          THEN "www.netflix.com" ELSE "netflix.com"
             IN EntriesOf(proc'[r].out.v.domains, other)
                  = EntriesOf(ipsFile.v.domains, other)
       /\ proc'[r].pc = "gen_write"
          => LET lines == proc'[r].out.lines
                 own == EntriesOf(proc'[r].ipData.v.domains, "www.netflix.com")
             IN {lines[k].value : k \in {n \in 1..Len(lines) :
                    /\ lines[n].text = "server=/"
                    /\ lines[n].domain = "www.netflix.com"}}
                  = {e.resolveVia : e \in own}]_vars

\* www.netflix.com has been added next to netflix.com, with another upstream,
\* and the configuration is being generated from both
C12_Witness ==
  \E r \in Handlers :
     /\ proc[r].pc = "gen_write"
     /\ proc[r].op = "postDomain"
     /\ proc[r].domain = "www.netflix.com"
     /\ EntriesOf(proc[r].ipData.v.domains, "netflix.com")
          = {[domain |-> "netflix.com", resolveVia |-> IP1]}
     /\ EntriesOf(proc[r].ipData.v.domains, "www.netflix.com")
          = {[domain |-> "www.netflix.com", resolveVia |-> IP8]}

\* a well-formed IPv4 address: four octets, each in 0..255
ValidIPv4(via) == Len(via) = 4 /\ \A i \in 1..4 : via[i] \in 0..255

\* C13: what the API has persisted is valid: every resolveVia of ips.json is
\* a well-formed IPv4 address with octets in 0..255, and the dnsServer.port of
\* config.json is in 1..65535.
C13_PersistedValuesValid ==
  faults = 0 =>
     /\ ipsFile.kind = "json" =>
           \A i \in 1..Len(ipsFile.v.domains) :
              ValidIPv4(ipsFile.v.domains[i].resolveVia)
     /\ cfgFile.kind = "json" => cfgFile.v.dnsServer.port \in 1..65535

\* C14: GET /api/status takes `running` from whether smartdns.conf exists when
\* it looks, and domainCount from the number of entries ips.json holds when
\* it reads it; both go into the answer as they were taken.
C14_StatusReportsRunningAndCount ==
  [][\A r \in Handlers :
       /\ (proc[r].pc = "st_access" /\ proc'[r].pc # "st_access")
          => proc'[r].running = (confFile.kind # "absent")
       /\ (proc[r].pc = "st_gdl" /\ proc'[r].pc = "st_log")
          => proc'[r].domainCount = Len(ipsFile.v.domains)
       /\ ( /\ proc[r].op = "getStatus" /\ proc[r].pc \notin {"st_access", "st_gdl"}
            /\ proc'[r].op = "getStatus" )
          => /\ proc'[r].running = proc[r].running
             /\ proc'[r].domainCount = proc[r].domainCount]_vars

\* a status answered after an add: running, three domains
C14_Witness ==
  \E r \in Handlers :
     /\ proc[r].op = "getStatus"
     /\ proc[r].status = 200
     /\ proc[r].running
     /\ proc[r].domainCount = 3
     /\ ipsFile.kind = "json" /\ Len(ipsFile.v.domains) = 3

\* C15: the answer of GET /api/settings carries no webInterface.password,
\* whatever password is stored (so two stored settings that differ in the
\* password only are answered alike), and config.json is as it was.
C15_SettingsAnswerHidesPassword ==
  faults = 0 =>
     \A r \in Handlers :
        (proc[r].op = "getSettings" /\ proc[r].status = 200) =>
           /\ "password" \notin DOMAIN proc[r].out.v.webInterface
           /\ cfgFile.kind = "json"
           /\ withoutPassword(cfgFile.v) = proc[r].out.v

\* the password a settings object carries, if any
passwordOf(settings) ==
  IF "password" \in DOMAIN settings.webInterface
  THEN <<settings.webInterface.password>> ELSE <<>>

\* C16: a settings save whose body carries no webInterface.password keeps the
\* stored password: what saveConfig puts in place of config.json holds the
\* password config.json held, and that is what config.json holds afterwards.
C16_SaveWithoutPasswordKeepsIt ==
  [][\A r \in Handlers :
       ( /\ faults = 0
         /\ proc[r].op = "postSettings"
         /\ proc[r].pc \in {"save_open", "save_write"}
         /\ "password" \notin DOMAIN proc[r].settings.v.webInterface )
       => /\ ( /\ proc[r].pc = "save_open" /\ proc'[r].pc = "save_write"
               /\ cfgFile.kind = "json" )
             => passwordOf(proc[r].out.v) = passwordOf(cfgFile.v)
          /\ (proc[r].pc = "save_write" /\ proc'[r].pc = "upd_gc")
             => cfgFile' = proc[r].out]_vars

\* C17: removeDomain(d), on the list it read, hands saveDomainList (which
\* writes exactly that) a list with no entry whose domain is exactly d and
\* with every other entry unchanged and in the same order; when no entry has
\* domain d the list is unchanged and the removal still goes on to its save.
C17_RemoveDropsExactlyTheDomain ==
  [][\A r \in Handlers :
       proc[r].op = "deleteDomain"
       => /\ (proc[r].pc = "mod_gdl" /\ proc'[r].pc = "save_open")
             => LET old == ipsFile.v.domains
                    new == proc'[r].out.v.domains
                    d == proc[r].domain
                IN /\ \A i \in 1..Len(new) : new[i].domain # d
                   /\ new = SelectSeq(old, LAMBDA e : e.domain # d)
                   /\ (\A i \in 1..Len(old) : old[i].domain # d) => new = old
          /\ ( /\ proc[r].pc = "mod_gdl" /\ proc[r].ece = "check"
               /\ Exists(cfgFile) /\ ParseOk(ipsFile)
               /\ faults' = faults /\ proc'[r] # proc[r] )
             => proc'[r].pc = "save_open"
          /\ (proc[r].pc = "save_write" /\ proc'[r].pc = "upd_gc")
             => ipsFile' = proc[r].out]_vars

\* netflix.com is being removed from the list that also holds spotify.com,
\* while another removal names www.netflix.com, which is not listed
C17_Witness ==
  \E r, q \in Handlers :
     /\ proc[r].op = "deleteDomain" /\ proc[r].pc = "save_open"
     /\ proc[r].domain = "netflix.com"
     /\ proc[r].out.v.domains = <<[domain |-> "spotify.com", resolveVia |-> IP8]>>
     /\ proc[q].op = "deleteDomain" /\ proc[q].pc = "save_open"
     /\ proc[q].domain = "www.netflix.com"
     /\ proc[q].out.v = defaultIpList

\* C18: a POST /api/domains whose domain or resolveVia is missing or
\* ill-formed and a POST /api/settings lacking a key are answered 400 and
\* change nothing: a request goes on to the domain list only with well-formed
\* values, and a handler that answers 400 has changed, and goes on to change,
\* none of ips.json, config.json, smartdns.conf and dns.log.
C18_RejectedRequestChangesNothing ==
  [][\A r \in Handlers :
       /\ (proc[r].pc = "idle" /\ proc'[r].op = "postDomain")
          => \/ proc'[r].pc = "done" /\ proc'[r].status = 400
             \/ /\ proc'[r].pc = "mod_gdl"
                /\ proc'[r].domain # "" /\ proc'[r].resolveVia # <<>>
                /\ DomainFormatOk(proc'[r].domain)
                /\ IpFormatOk(proc'[r].resolveVia)
       /\ (proc[r].pc = "idle" /\ proc'[r].op = "postSettings")
          => \/ proc'[r].pc = "done" /\ proc'[r].status = 400
             \/ proc'[r].pc = "save_open"
       /\ ( /\ proc'[r].op \in {"postDomain", "postSettings"}
            /\ proc'[r].status = 400 /\ proc'[r] # proc[r] )
          => /\ proc'[r].pc = "done" /\ ~proc'[r].dirty
             /\ UNCHANGED <<ipsFile, cfgFile, confFile, dnsLog>>
       /\ ( /\ proc[r].op \in {"postDomain", "postSettings"}
            /\ proc[r].status = 400 /\ proc'[r] # proc[r] )
          => /\ proc'[r] = Idle
             /\ UNCHANGED <<ipsFile, cfgFile, confFile, dnsLog>>]_vars

\* a POST /api/domains and a POST /api/settings have both been answered 400
C18_Witness ==
  \E r, q \in Handlers :
     /\ proc[r].op = "postDomain" /\ proc[r].pc = "done"
     /\ proc[r].status = 400
     /\ proc[q].op = "postSettings" /\ proc[q].pc = "done"
     /\ proc[q].status = 400

\* C19: GET /api/logs/:type answers 400 and creates no file for a type other
\* than dns, access and error; for those three it answers with the current
\* content of the file, writes the sample content only when the file does
\* not exist, and never alters a file that exists (the write that follows the
\* handler's own creating open of dns.log is part of that creation).
C19_LogsReadOnlyUnlessAbsent ==
  [][\A r \in Handlers :
       (faults = 0 /\ faults' = 0 /\ proc'[r] # proc[r])
       => /\ (proc[r].pc = "idle" /\ proc'[r].op = "getLogs")
             => /\ proc'[r].type \notin {"dns", "access", "error"}
                   <=> (proc'[r].pc = "done" /\ proc'[r].status = 400)
                /\ UNCHANGED <<dnsLog, errorLog>>
          /\ (proc[r].op = "getLogs" /\ proc[r].pc = "gl_read")
             => /\ proc'[r].status = 200
                /\ proc'[r].out = LogContent(proc[r].type)
                /\ UNCHANGED <<dnsLog, accessLog, errorLog>>
          /\ ( /\ proc[r].op = "getLogs" /\ LogExists(proc[r].type)
               /\ ~(proc[r].type = "dns" /\ proc[r].pc = "gl_write") )
             => /\ proc[r].type = "dns" => dnsLog' = dnsLog
                /\ proc[r].type = "access" => accessLog' = accessLog
                /\ proc[r].type = "error" => errorLog' = errorLog]_vars

\* r's POST /api/logs/clear arrived with no other request in flight and none
\* has arrived since
ClearedAlone(r) ==
  /\ proc[r].op = "clearLogs"
  /\ proc[r].ev = <<"alone">>
  /\ started = proc[r].since

C21_AddUpdatesInPlaceOrAppends ==
  [][\A r \in Handlers :
       ( /\ proc[r].op = "postDomain"
         /\ proc[r].pc = "mod_gdl" /\ proc'[r].pc = "save_open" )
       => LET old == ipsFile.v.domains
              new == proc'[r].out.v.domains
              d == proc[r].domain
              u == proc[r].resolveVia
              at == {i \in 1..Len(old) : old[i].domain = d}
          IN IF at # {}
             THEN /\ Len(new) = Len(old)
                  /\ \E i \in at :
                       /\ new[i] = [domain |-> d, resolveVia |-> u]
                       /\ \A j \in 1..Len(old) : j # i => new[j] = old[j]
             ELSE /\ Len(new) = Len(old) + 1
                  /\ new[Len(new)] = [domain |-> d, resolveVia |-> u]
                  /\ \A j \in 1..Len(old) : new[j] = old[j]]_vars

\* one add is updating netflix.com, first of two entries, to another
\* upstream while another add is appending www.netflix.com
C21_Witness ==
  \E r, q \in Handlers :
     /\ proc[r].op = "postDomain" /\ proc[r].pc = "save_open"
     /\ proc[r].domain = "netflix.com"
     /\ proc[r].out.v.domains =
          << [domain |-> "netflix.com", resolveVia |-> IP8],
             [domain |-> "spotify.com", resolveVia |-> IP8] >>
     /\ proc[q].op = "postDomain" /\ proc[q].pc = "save_open"
     /\ proc[q].domain = "www.netflix.com"
     /\ Len(proc[q].out.v.domains) = 3
     /\ proc[q].out.v.domains[3].domain = "www.netflix.com"

\* C22: no acknowledged change is lost.  When a POST /api/domains for d
\* answers success as the last request in flight, the only other request
\* there has been being another POST /api/domains (so that no DELETE has ever
\* been made), d is in the persisted domain list.
C22_NoAcknowledgedAddLost ==
  [][\A r \in Handlers :
       ( /\ faults = 0 /\ faults' = 0
         /\ started = 2
         /\ proc[r].op = "postDomain" /\ proc[r].pc # "done"
         /\ proc'[r].pc = "done" /\ proc'[r].status = 200
         /\ \A q \in Handlers \ {r} :
              /\ proc[q].op = "postDomain"
              /\ proc[q].pc = "done" /\ proc[q].status = 200 )
       => /\ ipsFile'.kind = "json"
          /\ \E i \in 1..Len(ipsFile'.v.domains) :
               ipsFile'.v.domains[i].domain = proc[r].domain]_vars

\* C23: ensureConfigExists writes the defaults only for a file that does not
\* exist: under any interleaving with saveConfig / saveDomainList, its
\* writeFile never opens, and so never replaces by the defaults, a
\* config.json or an ips.json that holds what a save has written.
C23_DefaultsNeverReplaceSavedFile ==
  [][\A r \in Procs :
       /\ (proc[r].ece = "open_cfg" /\ proc'[r].ece = "write_cfg")
          => ~(cfgFile.kind = "json" /\ cfgFile.v # defaultConfig)
       /\ (proc[r].ece = "open_ips" /\ proc'[r].ece = "write_ips")
          => ~(ipsFile.kind = "json" /\ ipsFile.v # defaultIpList)]_vars

\* the lines a log file holds
LinesOf(f) == IF f.kind = "text" THEN {f.lines[i] : i \in 1..Len(f.lines)} ELSE {}

\* C24: GET /api/status never removes entries from the DNS log: no step of
\* the request takes a line out of dns.log, the service-restart and
\* domain-added/removed lines included.
C24_StatusKeepsDnsLogLines ==
  [][\A r \in Handlers :
       ( /\ faults = 0 /\ faults' = 0
         /\ proc[r].op = "getStatus" /\ proc'[r] # proc[r] )
       => LinesOf(dnsLog) \subseteq LinesOf(dnsLog')]_vars

EventOrders ==
  LET G == {"generate", "generate_stale"} IN
  {<<>>, <<"persist">>}
    \cup {<<"persist", g>> : g \in G}
    \cup {<<"persist", g, x>> : g \in G, x \in {"restart", "append_failed"}}
    \cup {<<"persist", g, "restart", y>> :
            g \in G, y \in {"report", "final", "append_failed"}}
    \cup {<<"persist", g, "restart", "report", z>> :
            g \in G, z \in {"final", "append_failed"}}

\* C26: within one domain add or remove the list is persisted, then
\* smartdns.conf is written, then the restart line is appended to dns.log,
\* then the bypass report is written, and only then the 'Added domain' /
\* 'Removed domain' line is appended.  No step touches its file before the
\* earlier ones have succeeded, nothing follows a failure, and a failed
\* bypass report still leads on to the final line.
C26_EventsInOrder ==
  [][\A r \in Handlers :
       (proc'[r].op \in {"postDomain", "deleteDomain"} /\ proc'[r] # proc[r])
       => LET ev == proc[r].ev
              new == proc'[r].ev
              has(e) == \E i \in 1..Len(ev) : ev[i] = e
          IN /\ new \in EventOrders
             /\ proc'[r].status = 200 => new[Len(new)] = "final"
             /\ proc'[r].status = 500 => ~(\E i \in 1..Len(new) : new[i] = "final")
             /\ new = Append(ev, "persist")
                => ipsFile' = proc[r].out /\ ipsFile'.kind = "json"
             /\ (new # ev /\ new[Len(new)] \in {"generate", "generate_stale"})
                => confFile' = proc[r].out
             /\ (Len(new) > Len(ev) /\ new[Len(ev) + 1] = "restart")
                => /\ dnsLog' = AppendLine(dnsLog, RestartLine)
                   /\ proc'[r].pc = "final"
             /\ (new # ev /\ new[Len(new)] = "report")
                => reportFile'.kind = "json"
             /\ new = Append(ev, "final")
                => /\ dnsLog'.lines[Len(dnsLog'.lines)].text
                        \in {AddedLine("", <<>>).text, RemovedLine("").text}
                   /\ Len(dnsLog'.lines) = Len(dnsLog.lines) + 1
             /\ new = Append(ev, "append_failed")
                => dnsLog' = dnsLog /\ proc'[r].status = 500
             /\ confFile' # confFile => ev = <<"persist">>
             /\ reportFile' # reportFile => Len(ev) = 2 /\ ev[1] = "persist"
             /\ dnsLog' # dnsLog
                => /\ Len(ev) >= 2 /\ ev[1] = "persist"
                   /\ ev[2] \in {"generate", "generate_stale"}
                   /\ Len(ev) > 2 => ev[3] = "restart"]_vars

\* an add has answered success although its bypass report could not be
\* written: persisted, generated, restarted, then the final line
C26_Witness ==
  \E r \in Handlers :
     /\ proc[r].op = "postDomain" /\ proc[r].status = 200
     /\ proc[r].ev = <<"persist", "generate", "restart", "final">>
     /\ dnsLog.kind = "text" /\ Len(dnsLog.lines) >= 2
     /\ dnsLog.lines[Len(dnsLog.lines) - 1] = RestartLine

====
